---- MODULE Spec2Model ----
(***************************************************************************)
(* The GIF search coordinator of 03-gifs-app: the useGif hook              *)
(* (gifs/hooks/useGif.tsx) with its two handlers handleSearch and          *)
(* handleTermClicked, the fetcher getGifsByQuery it awaits, and the React  *)
(* render that refreshes the previousTerms value the handlers close over.  *)
(*                                                                         *)
(* Strings are sequences of one-character strings, so that trim() and      *)
(* toLocaleLowerCase() are computed rather than assumed.                   *)
(*                                                                         *)
(* Beside it, each under a specification of its own: the mapping done by   *)
(* getGifsByQuery (SpecFetcher), the ItemCounter of the shopping cart      *)
(* (SpecItemCounter), the useCounter hook (SpecCounter) and the debounce   *)
(* effect of SearchBar driving handleSearch (SpecSearchBar). A component   *)
(* that a specification does not exercise keeps its initial values.        *)
(***************************************************************************)
EXTENDS Naturals, Integers, Sequences, FiniteSets, Bags, TLC

VARIABLES
    gifs,            \* useState<Gif[]>: the value last passed to setGifs
    previousTerms,   \* useState<string[]>: the value last passed to setPreviousTerms
    gifsCache,       \* useRef<Record<string, Gif[]>>: own properties of gifsCache.current
    cachePrototype,  \* the [[Prototype]] of gifsCache.current
    renderedTerms,   \* previousTerms as captured by the handlers of the last render
    pending,         \* bag of getGifsByQuery calls awaited by a suspended handler
    last,            \* the handler step taken last, and how its promise stands
    accepted,        \* the terms handleSearch went on to fetch, oldest first
    succeeded,       \* the terms for which a fetch of handleSearch has resolved
    data,            \* getGifsByQuery: response.data.data, as GIPHY sent it
    returned,        \* getGifsByQuery: the promise it returned
    quantity,        \* ItemCounter: the quantity prop
    count,           \* ItemCounter: useState(quantity)
    initialValue,    \* useCounter: the argument of the hook
    counter,         \* useCounter: the value last passed to setCounter
    renderedCounter, \* useCounter: counter as captured by the handlers of the last render
    barQuery,        \* SearchBar: useState(''), the text of the input
    timers,          \* SearchBar: the timeouts set and not cleared, each by its query
    renderPending,   \* GifsApp: a state of useGif was set since the last render
    issued,          \* fetches the timeouts have caused since the input last changed
    mounted          \* GifsApp: the component is mounted

gifVars == <<gifs, previousTerms, gifsCache, cachePrototype, renderedTerms, pending,
             last, accepted, succeeded>>

fetcherVars == <<data, returned>>

itemVars == <<quantity, count>>

counterVars == <<initialValue, counter, renderedCounter>>

barVars == <<barQuery, timers, renderPending, issued>>

appVars == <<mounted>>

vars == <<gifVars, fetcherVars, itemVars, counterVars, barVars, appVars>>

----------------------------------------------------------------------------
(* Bounds of the model *)

\* getGifsByQuery calls that may be awaiting at the same time
MaxInFlight == 2

\* searches already made in the session SpecSession starts from
SessionLen == 7

----------------------------------------------------------------------------
(* Strings *)

UpperCase == <<"A", "B", "C", "D", "E", "F", "G", "H", "I", "J", "K", "L", "M",
               "N", "O", "P", "Q", "R", "S", "T", "U", "V", "W", "X", "Y", "Z">>

LowerCase == <<"a", "b", "c", "d", "e", "f", "g", "h", "i", "j", "k", "l", "m",
               "n", "o", "p", "q", "r", "s", "t", "u", "v", "w", "x", "y", "z">>

WhiteSpace == {" "}

Range(s) == {s[i] : i \in DOMAIN s}

\* String.prototype.trim: strips the white space at both ends
RECURSIVE trimStart(_)
trimStart(s) ==
    IF s = <<>> THEN s
    ELSE IF Head(s) \in WhiteSpace THEN trimStart(Tail(s)) ELSE s

RECURSIVE trimEnd(_)
trimEnd(s) ==
    IF s = <<>> THEN s
    ELSE IF s[Len(s)] \in WhiteSpace THEN trimEnd(SubSeq(s, 1, Len(s) - 1)) ELSE s

trim(s) == trimEnd(trimStart(s))

\* String.prototype.toLocaleLowerCase, character by character
lowerChar(c) ==
    IF \E i \in DOMAIN UpperCase : UpperCase[i] = c
    THEN LowerCase[CHOOSE i \in DOMAIN UpperCase : UpperCase[i] = c]
    ELSE c

toLocaleLowerCase(s) == [i \in DOMAIN s |-> lowerChar(s[i])]

\* Variants of step 1 of handleSearch, each a slip the code could have made
NormalizeNoTrim(query) == toLocaleLowerCase(query)

NormalizeNoLower(query) == trim(query)

\* query = query.trim().toLocaleLowerCase()
Normalize(query) == toLocaleLowerCase(trim(query))

----------------------------------------------------------------------------
(* Inputs *)

Cat == <<"c", "a", "t">>
Proto == <<"_", "_", "p", "r", "o", "t", "o", "_", "_">>
Constructor == <<"c", "o", "n", "s", "t", "r", "u", "c", "t", "o", "r">>

\* What the user may type into the search box
RawQueries ==
    { <<>>,
      <<" ", " ">>,
      Cat,
      <<"C", "a", "t", " ">>,
      <<" ", "C", "A", "T">>,
      Constructor,
      <<"C", "o", "n", "s", "t", "r", "u", "c", "t", "o", "r">> }

\* The same, by a user who searches for the name of the accessor property
\* through which every plain object exposes its prototype
ProtoQueries ==
    { Proto,
      <<"_", "_", "P", "r", "o", "t", "o", "_", "_", " ">>,
      Cat }

\* The i-th term searched earlier in the session: "x", "xx", "xxx", ...
SessionTerm(i) == [k \in 1..i |-> "x"]

----------------------------------------------------------------------------
(* JavaScript values held by gifs and by the properties of gifsCache.current *)

Array(items) == [type |-> "array", items |-> items]

Undefined == [type |-> "undefined", items |-> <<>>]

\* Object.prototype.constructor, which any plain object inherits
ObjectFunction == [type |-> "function", items |-> <<>>]

\* Array.prototype.constructor, which an object whose prototype is an array
\* inherits instead
ArrayFunction == [type |-> "function", items |-> <<"Array">>]

\* Object.prototype itself, the prototype of the {} given to useRef
ObjectPrototype == [type |-> "object", items |-> <<>>]

\* What getGifsByQuery may resolve to: an array of Gif, possibly empty
GifsNone == Array(<<>>)
GifsOne == Array(<<"g1">>)
GifsTwo == Array(<<"g2", "g1">>)
Results == {GifsNone, GifsOne, GifsTwo}

----------------------------------------------------------------------------
(* gifsCache.current: a plain object {}, read and written by property name *)

\* Of the terms typed here, those that name a property every plain object
\* inherits from Object.prototype
ObjectPrototypeKeys == {Constructor}

\* A property read that looks at own properties only
CacheGetOwnOnly(cache, term) ==
    IF term \in DOMAIN cache THEN cache[term] ELSE Undefined

\* gifsCache.current[term]: "__proto__" is the accessor of Object.prototype
\* and reads the prototype; any other name is an own property first, then a
\* property of the prototype chain
CacheGet(cache, term) ==
    IF term = Proto THEN cachePrototype
    ELSE IF term \in DOMAIN cache THEN cache[term]
    ELSE IF term \in ObjectPrototypeKeys
         THEN IF cachePrototype.type = "array" THEN ArrayFunction ELSE ObjectFunction
    ELSE Undefined

\* An assignment that keeps the value an existing property already has
CacheSetIfAbsent(cache, term, value) ==
    [k \in DOMAIN cache \cup {term} |->
        IF k \in DOMAIN cache THEN cache[k] ELSE value]

\* An assignment that makes an own property whatever the name
CacheSetAnyName(cache, term, value) ==
    [k \in DOMAIN cache \cup {term} |-> IF k = term THEN value ELSE cache[k]]

\* gifsCache.current[query] = gifs, the own properties after it: the name
\* "__proto__" reaches the setter of Object.prototype and makes no property
CacheSet(cache, term, value) ==
    IF term = Proto THEN cache
    ELSE [k \in DOMAIN cache \cup {term} |-> IF k = term THEN value ELSE cache[k]]

\* gifsCache.current[query] = gifs, the prototype after it: the setter of
\* "__proto__" makes the assigned array the prototype of gifsCache.current
SetPrototype(term, value) ==
    IF term = Proto /\ value.type \in {"array", "object"} THEN value ELSE cachePrototype

\* A truthiness test that takes an empty array for a miss
TruthyNonEmpty(v) == v.type /= "undefined" /\ v /= Array(<<>>)

\* JavaScript truthiness of what a property read gives: every array (the
\* empty one too) and every function is truthy, undefined is falsy
Truthy(v) == v.type /= "undefined"

----------------------------------------------------------------------------
(* getGifsByQuery: the GIPHY response mapped to the Gif objects of the app *)

\* Items a response may hold
MaxData == 2

Digits == <<"0", "1", "2", "3", "4", "5", "6", "7", "8", "9">>

DigitValue(c) == (CHOOSE i \in DOMAIN Digits : Digits[i] = c) - 1

RECURSIVE DecimalValue(_)
DecimalValue(s) ==
    IF s = <<>> THEN 0
    ELSE 10 * DecimalValue(SubSeq(s, 1, Len(s) - 1)) + DigitValue(s[Len(s)])

RECURSIVE StripZeros(_)
StripZeros(s) ==
    IF s = <<>> THEN s
    ELSE IF s[Len(s)] = "0" THEN StripZeros(SubSeq(s, 1, Len(s) - 1)) ELSE s

\* A JavaScript number: NaN, or whole.frac with frac the decimal places
Num(whole, frac) == [type |-> "number", nan |-> FALSE, whole |-> whole, frac |-> frac]

NaN == [type |-> "number", nan |-> TRUE, whole |-> 0, frac |-> <<>>]

\* Number(text) for a text of digits, dots, letters and spaces, without
\* sign, exponent or radix prefix: white space at the ends is dropped, the
\* empty text gives 0, a decimal literal its value and anything else NaN
Number(text) ==
    LET s == trim(text)
        dots == {i \in DOMAIN s : s[i] = "."}
        digits == {i \in DOMAIN s : s[i] \in Range(Digits)}
        dot == IF dots = {} THEN Len(s) + 1 ELSE CHOOSE i \in dots : TRUE
    IN  IF s = <<>> THEN Num(0, <<>>)
        ELSE IF /\ dots \cup digits = DOMAIN s
                /\ Cardinality(dots) <= 1
                /\ digits /= {}
        THEN Num(DecimalValue(SubSeq(s, 1, dot - 1)),
                 StripZeros(SubSeq(s, dot + 1, Len(s))))
        ELSE NaN

\* What GIPHY may report as a width or a height: "480", "", "abc", "270.5"
Texts ==
    { <<"4", "8", "0">>,
      <<>>,
      <<"a", "b", "c">>,
      <<"2", "7", "0", ".", "5">> }

\* One element of response.data.data
GiphyGif(id, width, height) ==
    [id |-> id, title |-> "title of " \o id,
     images |-> [original |-> [url |-> "url of " \o id, width |-> width, height |-> height]]]

GiphyGifs == {GiphyGif(id, w, h) : id \in {"g1", "g2"}, w \in Texts, h \in Texts}

\* response.data.data: up to MaxData elements
GiphyData == UNION {[1..n -> GiphyGifs] : n \in 0..MaxData}

\* The promise of getGifsByQuery: not called, resolved with gifs, or rejected
Promise(state, value) == [state |-> state, value |-> value]

NotCalled == Promise("none", <<>>)

\* response.data.data.map((gif) => ({ id, title, url, width, height }))
MapGifs(response) ==
    [i \in DOMAIN response |->
        [id |-> response[i].id,
         title |-> response[i].title,
         url |-> response[i].images.original.url,
         width |-> Number(response[i].images.original.width),
         height |-> Number(response[i].images.original.height)]]

\* The request is answered: the data is mapped and returned
getGifsByQuery ==
    /\ returned = NotCalled
    /\ returned' = Promise("resolved", MapGifs(data))
    /\ UNCHANGED data

\* The request fails: giphyApi throws and the promise rejects
getGifsByQueryRejected ==
    /\ returned = NotCalled
    /\ returned' = Promise("rejected", <<>>)
    /\ UNCHANGED data

\* getGifsByQuery is not being called
FetcherIdle ==
    /\ data = <<>>
    /\ returned = NotCalled

----------------------------------------------------------------------------
(* ItemCounter: the quantity of one item of the shopping cart *)

\* How far from 0 the model lets count go
MaxCount == 9

\* An optional numeric prop or argument: left out, or given with a value
Given(value) == [given |-> TRUE, value |-> value]

NotGiven == [given |-> FALSE, value |-> 0]

\* ({ name, quantity = 1 })
DefaultQuantity == 1

\* The quantities a parent may pass
Quantities == {NotGiven} \cup {Given(q) : q \in -2..5}

\* useState(quantity), the default standing in for a prop left out
InitialCount(prop) == IF prop.given THEN prop.value ELSE DefaultQuantity

\* A click on +1: setCount(count + 1). A click is a discrete event, React
\* renders the component again before the next one is handled
ItemCounter_handleAdd ==
    /\ count < MaxCount
    /\ count' = count + 1
    /\ UNCHANGED quantity

\* A click on -1: if (count === 1) return; setCount(count - 1)
ItemCounter_handleSubstract ==
    /\ count > -MaxCount
    /\ count' = IF count = 1 THEN count ELSE count - 1
    /\ UNCHANGED quantity

\* No ItemCounter is mounted
ItemCounterIdle ==
    /\ quantity = NotGiven
    /\ count = DefaultQuantity

----------------------------------------------------------------------------
(* useCounter: the hook of the counter app *)

\* How far from initialValue the model lets counter go
MaxDrift == 3

\* (initialValue: number = 10)
DefaultInitialValue == 10

\* What the caller may pass: nothing, useCounter(20), useCounter(0)
InitialValues == {NotGiven, Given(20), Given(0)}

\* The parameter after defaulting
InitialValueOf(arg) == IF arg.given THEN arg.value ELSE DefaultInitialValue

\* Whether the model lets counter take the value n
WithinDrift(n) ==
    /\ n <= InitialValueOf(initialValue) + MaxDrift
    /\ n >= InitialValueOf(initialValue) - MaxDrift

\* handleAdd: setCounter(counter + 1), counter being the value of the render
\* the handler was made in
useCounter_handleAdd ==
    /\ WithinDrift(renderedCounter + 1)
    /\ counter' = renderedCounter + 1
    /\ UNCHANGED <<initialValue, renderedCounter>>

\* handleSubstract: setCounter((prevState) => prevState - 1)
useCounter_handleSubstract ==
    /\ WithinDrift(counter - 1)
    /\ counter' = counter - 1
    /\ UNCHANGED <<initialValue, renderedCounter>>

\* A handleReset that goes back to the default whatever the caller passed
useCounter_handleResetDefault ==
    /\ counter' = DefaultInitialValue
    /\ UNCHANGED <<initialValue, renderedCounter>>

\* handleReset: setCounter(initialValue)
useCounter_handleReset ==
    /\ counter' = InitialValueOf(initialValue)
    /\ UNCHANGED <<initialValue, renderedCounter>>

\* The component using the hook renders again: the handlers returned now
\* close over the new counter
useCounter_Render ==
    /\ renderedCounter /= counter
    /\ renderedCounter' = counter
    /\ UNCHANGED <<initialValue, counter>>

\* No component uses the hook
useCounterIdle ==
    /\ initialValue = NotGiven
    /\ counter = DefaultInitialValue
    /\ renderedCounter = DefaultInitialValue

----------------------------------------------------------------------------
(* SearchBar *)

\* The handlers of useGif are called without a SearchBar around them
SearchBarIdle ==
    /\ barQuery = <<>>
    /\ timers = {}
    /\ renderPending = FALSE
    /\ issued = 0

----------------------------------------------------------------------------
(* State *)

\* The history keeps at most 8 terms
MaxHistory == 8

\* [query, ...previousTerms] without the splice
PrependKeepAll(query, terms) == <<query>> \o terms

\* A splice that drops the head of the new array instead of its tail
PrependDropNewest(query, terms) ==
    LET all == <<query>> \o terms
    IN  IF Len(all) <= MaxHistory THEN all ELSE SubSeq(all, 2, MaxHistory + 1)

\* [...previousTerms, query].splice(0, 8): the new term at the wrong end
PrependAtEnd(query, terms) ==
    LET all == terms \o <<query>>
    IN  SubSeq(all, 1, IF Len(all) < MaxHistory THEN Len(all) ELSE MaxHistory)

\* [query, ...previousTerms].splice(0, 8): splice returns the elements it
\* removes, the first 8 of the new array
Prepend(query, terms) ==
    LET all == <<query>> \o terms
    IN  SubSeq(all, 1, IF Len(all) < MaxHistory THEN Len(all) ELSE MaxHistory)

\* previousTerms.includes(query)
includes(terms, query) == query \in Range(terms)

\* One await of getGifsByQuery(term), made by handler op
Fetch(op, term) == [op |-> op, term |-> term]

InFlight == BagCardinality(pending)

Issue(f) == pending (+) SetToBag({f})

Settle(f) == pending (-) SetToBag({f})

\* The step taken last: the handler, the term it works on, how far it got
\* ("empty", "duplicate", "cached", "awaiting", "resolved", "rejected") and,
\* once resolved, what getGifsByQuery returned
Step(kind, term, outcome, result) ==
    [kind |-> kind, term |-> term, outcome |-> outcome, result |-> result]

NoStep == Step("init", <<>>, "none", Undefined)

\* The log of accepted searches: the terms in the order handleSearch took
\* them, kept for as long as no term was taken twice
Accepted(terms, distinct) == [terms |-> terms, distinct |-> distinct]

Accept(term) ==
    IF accepted.distinct /\ term \notin Range(accepted.terms)
    THEN Accepted(Append(accepted.terms, term), TRUE)
    ELSE Accepted(accepted.terms, FALSE)

\* useGif() on mount: useState([]), useState([]), useRef({})
Init ==
    /\ gifs = Array(<<>>)
    /\ previousTerms = <<>>
    /\ gifsCache = <<>>
    /\ renderedTerms = <<>>
    /\ pending = EmptyBag
    /\ last = NoStep
    /\ accepted = Accepted(<<>>, TRUE)
    /\ cachePrototype = ObjectPrototype
    /\ succeeded = {}
    /\ mounted = TRUE
    /\ FetcherIdle
    /\ ItemCounterIdle
    /\ useCounterIdle
    /\ SearchBarIdle

\* The hook as constructed (n = 0, which is Init), or a session under way:
\* SessionLen terms searched one after the other, each fetch resolved before
\* the next search, the last render done
InitSession ==
    \E n \in {0, SessionLen} :
        /\ gifs = IF n = 0 THEN Array(<<>>) ELSE GifsOne
        /\ previousTerms = [i \in 1..n |-> SessionTerm(n + 1 - i)]
        /\ gifsCache = [t \in {SessionTerm(i) : i \in 1..n} |-> GifsOne]
        /\ renderedTerms = previousTerms
        /\ pending = EmptyBag
        /\ last = NoStep
        /\ accepted = Accepted([i \in 1..n |-> SessionTerm(i)], TRUE)
        /\ cachePrototype = ObjectPrototype
        /\ succeeded = {SessionTerm(i) : i \in 1..n}
        /\ mounted = TRUE
        /\ FetcherIdle
        /\ ItemCounterIdle
        /\ useCounterIdle
        /\ SearchBarIdle

----------------------------------------------------------------------------
(* handleSearch *)

\* handleSearch(query) up to its await: normalize, return on an empty or a
\* known term, else set the history from the rendered previousTerms and call
\* getGifsByQuery
handleSearch(query) ==
    LET q == Normalize(query)
    IN  IF Len(q) = 0
        THEN /\ last' = Step("handleSearch", q, "empty", Undefined)
             /\ UNCHANGED <<gifs, previousTerms, gifsCache, cachePrototype, renderedTerms, pending, accepted, succeeded>>
        ELSE IF includes(renderedTerms, q)
        THEN /\ last' = Step("handleSearch", q, "duplicate", Undefined)
             /\ UNCHANGED <<gifs, previousTerms, gifsCache, cachePrototype, renderedTerms, pending, accepted, succeeded>>
        ELSE /\ InFlight < MaxInFlight
             /\ previousTerms' = Prepend(q, renderedTerms)
             /\ pending' = Issue(Fetch("handleSearch", q))
             /\ last' = Step("handleSearch", q, "awaiting", Undefined)
             /\ accepted' = Accept(q)
             /\ UNCHANGED <<gifs, gifsCache, cachePrototype, renderedTerms, succeeded>>

\* A handleSearch that shows what it fetched and, like handleTermClicked,
\* does not cache it
handleSearchResolvedNoCache(term, found) ==
    /\ Fetch("handleSearch", term) \in BagToSet(pending)
    /\ pending' = Settle(Fetch("handleSearch", term))
    /\ gifs' = found
    /\ succeeded' = succeeded \cup {term}
    /\ last' = Step("handleSearch", term, "resolved", found)
    /\ UNCHANGED <<gifsCache, cachePrototype, previousTerms, renderedTerms, accepted>>

\* A handleSearch that drops the answer to a search that is no longer the
\* newest one
handleSearchResolvedIfNewest(term, found) ==
    /\ Fetch("handleSearch", term) \in BagToSet(pending)
    /\ pending' = Settle(Fetch("handleSearch", term))
    /\ gifs' = IF previousTerms[1] = term THEN found ELSE gifs
    /\ gifsCache' = CacheSet(gifsCache, term, found)
    /\ cachePrototype' = SetPrototype(term, found)
    /\ succeeded' = succeeded \cup {term}
    /\ last' = Step("handleSearch", term, "resolved", found)
    /\ UNCHANGED <<previousTerms, renderedTerms, accepted>>

\* handleSearch after its await, getGifsByQuery having returned found:
\* setGifs(gifs); gifsCache.current[query] = gifs
handleSearchResolved(term, found) ==
    /\ Fetch("handleSearch", term) \in BagToSet(pending)
    /\ pending' = Settle(Fetch("handleSearch", term))
    /\ gifs' = found
    /\ gifsCache' = CacheSet(gifsCache, term, found)
    /\ cachePrototype' = SetPrototype(term, found)
    /\ succeeded' = succeeded \cup {term}
    /\ last' = Step("handleSearch", term, "resolved", found)
    /\ UNCHANGED <<previousTerms, renderedTerms, accepted>>

\* A handleSearch that catches the failure, clears the display and takes
\* the term back out of the history
handleSearchRejectedRollback(term) ==
    /\ Fetch("handleSearch", term) \in BagToSet(pending)
    /\ pending' = Settle(Fetch("handleSearch", term))
    /\ gifs' = Array(<<>>)
    /\ previousTerms' = SelectSeq(previousTerms, LAMBDA t : t /= term)
    /\ last' = Step("handleSearch", term, "resolved", Undefined)
    /\ UNCHANGED <<gifsCache, cachePrototype, renderedTerms, accepted, succeeded>>

\* A handleSearch that calls getGifsByQuery again when the call has failed
handleSearchRejectedRetried(term) ==
    /\ Fetch("handleSearch", term) \in BagToSet(pending)
    /\ pending' = pending
    /\ last' = Step("handleSearch", term, "rejected", Undefined)
    /\ UNCHANGED <<gifs, previousTerms, gifsCache, cachePrototype, renderedTerms, accepted, succeeded>>

\* handleSearch when getGifsByQuery throws: there is no try/catch, the
\* statements after the await do not run and the handler's promise rejects
handleSearchRejected(term) ==
    /\ Fetch("handleSearch", term) \in BagToSet(pending)
    /\ pending' = Settle(Fetch("handleSearch", term))
    /\ last' = Step("handleSearch", term, "rejected", Undefined)
    /\ UNCHANGED <<gifs, previousTerms, gifsCache, cachePrototype, renderedTerms, accepted, succeeded>>

----------------------------------------------------------------------------
(* handleTermClicked *)

\* handleTermClicked(term) up to its await: show the cached value when the
\* property read is truthy, else call getGifsByQuery
handleTermClicked(term) ==
    IF Truthy(CacheGet(gifsCache, term))
    THEN /\ gifs' = CacheGet(gifsCache, term)
         /\ last' = Step("handleTermClicked", term, "cached", Undefined)
         /\ UNCHANGED <<previousTerms, gifsCache, cachePrototype, renderedTerms, pending, accepted, succeeded>>
    ELSE /\ InFlight < MaxInFlight
         /\ pending' = Issue(Fetch("handleTermClicked", term))
         /\ last' = Step("handleTermClicked", term, "awaiting", Undefined)
         /\ UNCHANGED <<gifs, previousTerms, gifsCache, cachePrototype, renderedTerms, accepted, succeeded>>

\* A handleTermClicked that writes what it fetched through to the cache
handleTermClickedResolvedCached(term, found) ==
    /\ Fetch("handleTermClicked", term) \in BagToSet(pending)
    /\ pending' = Settle(Fetch("handleTermClicked", term))
    /\ gifs' = found
    /\ gifsCache' = CacheSet(gifsCache, term, found)
    /\ last' = Step("handleTermClicked", term, "resolved", found)
    /\ UNCHANGED <<previousTerms, cachePrototype, renderedTerms, accepted, succeeded>>

\* handleTermClicked after its await: setGifs(gifs), and no write to the cache
handleTermClickedResolved(term, found) ==
    /\ Fetch("handleTermClicked", term) \in BagToSet(pending)
    /\ pending' = Settle(Fetch("handleTermClicked", term))
    /\ gifs' = found
    /\ last' = Step("handleTermClicked", term, "resolved", found)
    /\ UNCHANGED <<previousTerms, gifsCache, cachePrototype, renderedTerms, accepted, succeeded>>

\* A handleTermClicked that catches the failure and clears the display
handleTermClickedRejectedCleared(term) ==
    /\ Fetch("handleTermClicked", term) \in BagToSet(pending)
    /\ pending' = Settle(Fetch("handleTermClicked", term))
    /\ gifs' = Array(<<>>)
    /\ last' = Step("handleTermClicked", term, "resolved", Undefined)
    /\ UNCHANGED <<previousTerms, gifsCache, cachePrototype, renderedTerms, accepted, succeeded>>

\* handleTermClicked when getGifsByQuery throws: the promise rejects
handleTermClickedRejected(term) ==
    /\ Fetch("handleTermClicked", term) \in BagToSet(pending)
    /\ pending' = Settle(Fetch("handleTermClicked", term))
    /\ last' = Step("handleTermClicked", term, "rejected", Undefined)
    /\ UNCHANGED <<gifs, previousTerms, gifsCache, cachePrototype, renderedTerms, accepted, succeeded>>

----------------------------------------------------------------------------
(* The render *)

\* useGif runs again after setPreviousTerms: the handlers handed to SearchBar
\* and PreviousSearches now close over the new previousTerms
Render ==
    /\ renderedTerms /= previousTerms
    /\ renderedTerms' = previousTerms
    /\ last' = Step("render", <<>>, "none", Undefined)
    /\ UNCHANGED <<gifs, previousTerms, gifsCache, cachePrototype, pending, accepted, succeeded>>

\* The terms of the fetches in flight
PendingTerms == {f.term : f \in BagToSet(pending)}

----------------------------------------------------------------------------
(* SearchBar inside GifsApp: the input, its debounce effect and the        *)
(* onQuery it is handed, (query) => handleSearch(query)                    *)

\* What the user may have in the input: "", "c", "ca", "cat"
InputTexts ==
    { <<>>,
      <<"c">>,
      <<"c", "a">>,
      <<"c", "a", "t">> }

\* onChange: setQuery(event.target.value) and, the change being handled
\* before the next event, the render of SearchBar that follows: the cleanup
\* of the effect clears the timeout of the query before and the effect sets
\* one for the new query, without clearing any timeout
SearchBar_onChangeNoCleanup(text) ==
    /\ text /= barQuery
    /\ barQuery' = text
    /\ timers' = timers \cup {text}
    /\ issued' = 0
    /\ UNCHANGED <<renderPending, gifVars>>

\* onChange: setQuery(event.target.value) and, the change being handled
\* before the next event, the render of SearchBar that follows: the cleanup
\* of the effect clears the timeout of the query before, the effect sets one
\* for the new query
SearchBar_onChange(text) ==
    /\ text /= barQuery
    /\ barQuery' = text
    /\ timers' = (timers \ {barQuery}) \cup {text}
    /\ issued' = 0
    /\ UNCHANGED <<renderPending, gifVars>>

\* A timeout whose onQuery sets a state of useGif whatever it is handed, so
\* that a render is due after each
SearchBar_timeoutSetsState(text) ==
    /\ text \in timers
    /\ ~renderPending
    /\ timers' = timers \ {text}
    /\ handleSearch(text)
    /\ renderPending' = TRUE
    /\ issued' = IF pending' /= pending THEN issued + 1 ELSE issued
    /\ UNCHANGED barQuery

\* The callback of setTimeout, 700 ms after the effect that set it:
\* onQuery(query), which is handleSearch(query). A render that is due takes
\* place within those 700 ms and replaces the timeout, so none is due here
SearchBar_timeout(text) ==
    /\ text \in timers
    /\ ~renderPending
    /\ timers' = timers \ {text}
    /\ handleSearch(text)
    /\ renderPending' = (previousTerms' /= previousTerms)
    /\ issued' = IF pending' /= pending THEN issued + 1 ELSE issued
    /\ UNCHANGED barQuery

\* The fetch of a handleSearch resolves: setGifs with a new array makes a
\* render of GifsApp due
GifsApp_handleSearchResolved(term, found) ==
    /\ handleSearchResolved(term, found)
    /\ renderPending' = TRUE
    /\ UNCHANGED <<barQuery, timers, issued>>

\* The fetch of a handleSearch rejects: no state is set, no render is due
GifsApp_handleSearchRejected(term) ==
    /\ handleSearchRejected(term)
    /\ UNCHANGED <<barQuery, timers, renderPending, issued>>

\* GifsApp renders after a state change of useGif: the handlers close over
\* the new previousTerms, SearchBar is handed a new onQuery and its effect
\* runs again, clearing the timeout it had set and setting a new one
GifsApp_render ==
    /\ renderPending
    /\ renderPending' = FALSE
    /\ renderedTerms' = previousTerms
    /\ last' = Step("render", <<>>, "none", Undefined)
    /\ timers' = (timers \ {barQuery}) \cup {barQuery}
    /\ UNCHANGED <<gifs, previousTerms, gifsCache, cachePrototype, pending, accepted, succeeded>>
    /\ UNCHANGED <<barQuery, issued>>

----------------------------------------------------------------------------
(* The specifications *)

Next ==
    \/ \E query \in RawQueries :
          handleSearch(query) /\ UNCHANGED <<fetcherVars, itemVars, counterVars, barVars, appVars>>
    \/ \E term \in PendingTerms, found \in Results :
          handleSearchResolved(term, found) /\ UNCHANGED <<fetcherVars, itemVars, counterVars, barVars, appVars>>
    \/ \E term \in PendingTerms :
          handleSearchRejected(term) /\ UNCHANGED <<fetcherVars, itemVars, counterVars, barVars, appVars>>
    \/ \E term \in Range(renderedTerms) :
          handleTermClicked(term) /\ UNCHANGED <<fetcherVars, itemVars, counterVars, barVars, appVars>>
    \/ \E term \in PendingTerms, found \in Results :
          handleTermClickedResolved(term, found) /\ UNCHANGED <<fetcherVars, itemVars, counterVars, barVars, appVars>>
    \/ \E term \in PendingTerms :
          handleTermClickedRejected(term) /\ UNCHANGED <<fetcherVars, itemVars, counterVars, barVars, appVars>>
    \/ Render /\ UNCHANGED <<fetcherVars, itemVars, counterVars, barVars, appVars>>

\* The same steps, the searches typed being those of ProtoQueries
NextProto ==
    \/ \E query \in ProtoQueries :
          handleSearch(query) /\ UNCHANGED <<fetcherVars, itemVars, counterVars, barVars, appVars>>
    \/ \E term \in PendingTerms, found \in Results :
          handleSearchResolved(term, found) /\ UNCHANGED <<fetcherVars, itemVars, counterVars, barVars, appVars>>
    \/ \E term \in PendingTerms :
          handleSearchRejected(term) /\ UNCHANGED <<fetcherVars, itemVars, counterVars, barVars, appVars>>
    \/ \E term \in Range(renderedTerms) :
          handleTermClicked(term) /\ UNCHANGED <<fetcherVars, itemVars, counterVars, barVars, appVars>>
    \/ \E term \in PendingTerms, found \in Results :
          handleTermClickedResolved(term, found) /\ UNCHANGED <<fetcherVars, itemVars, counterVars, barVars, appVars>>
    \/ \E term \in PendingTerms :
          handleTermClickedRejected(term) /\ UNCHANGED <<fetcherVars, itemVars, counterVars, barVars, appVars>>
    \/ Render /\ UNCHANGED <<fetcherVars, itemVars, counterVars, barVars, appVars>>

Spec == Init /\ [][Next]_vars

SpecProto == Init /\ [][NextProto]_vars

\* The answer to a request that is awaited, or its failure
FetchCompletes ==
    \E term \in PendingTerms :
        /\ \/ \E found \in Results : handleSearchResolved(term, found)
           \/ handleSearchRejected(term)
           \/ \E found \in Results : handleTermClickedResolved(term, found)
           \/ handleTermClickedRejected(term)
        /\ UNCHANGED <<fetcherVars, itemVars, counterVars, barVars, appVars>>

\* SpecProto, every request getting its answer or failing in the end
SpecProtoFair == SpecProto /\ WF_vars(FetchCompletes)

\* getGifsByQuery alone, called once on any response
InitFetcher ==
    /\ data \in GiphyData
    /\ returned = NotCalled
    /\ gifs = Array(<<>>)
    /\ previousTerms = <<>>
    /\ gifsCache = <<>>
    /\ cachePrototype = ObjectPrototype
    /\ renderedTerms = <<>>
    /\ pending = EmptyBag
    /\ last = NoStep
    /\ accepted = Accepted(<<>>, TRUE)
    /\ succeeded = {}
    /\ mounted = TRUE
    /\ ItemCounterIdle
    /\ useCounterIdle
    /\ SearchBarIdle

NextFetcher ==
    \/ getGifsByQuery /\ UNCHANGED <<gifVars, itemVars, counterVars, barVars, appVars>>
    \/ getGifsByQueryRejected /\ UNCHANGED <<gifVars, itemVars, counterVars, barVars, appVars>>

SpecFetcher == InitFetcher /\ [][NextFetcher]_vars

\* The search app without a search made
useGifIdle ==
    /\ gifs = Array(<<>>)
    /\ previousTerms = <<>>
    /\ gifsCache = <<>>
    /\ cachePrototype = ObjectPrototype
    /\ renderedTerms = <<>>
    /\ pending = EmptyBag
    /\ last = NoStep
    /\ accepted = Accepted(<<>>, TRUE)
    /\ succeeded = {}
    /\ mounted = TRUE

\* An ItemCounter mounted with any quantity, or with none
InitItemCounter ==
    /\ quantity \in Quantities
    /\ count = InitialCount(quantity)
    /\ useGifIdle
    /\ FetcherIdle
    /\ useCounterIdle
    /\ SearchBarIdle

NextItemCounter ==
    \/ ItemCounter_handleAdd /\ UNCHANGED <<gifVars, fetcherVars, counterVars, barVars, appVars>>
    \/ ItemCounter_handleSubstract /\ UNCHANGED <<gifVars, fetcherVars, counterVars, barVars, appVars>>

SpecItemCounter == InitItemCounter /\ [][NextItemCounter]_vars

\* useCounter called with any initial value, or with none
InitCounter ==
    /\ initialValue \in InitialValues
    /\ counter = InitialValueOf(initialValue)
    /\ renderedCounter = counter
    /\ useGifIdle
    /\ FetcherIdle
    /\ ItemCounterIdle
    /\ SearchBarIdle

NextCounter ==
    \/ useCounter_handleAdd /\ UNCHANGED <<gifVars, fetcherVars, itemVars, barVars, appVars>>
    \/ useCounter_handleSubstract /\ UNCHANGED <<gifVars, fetcherVars, itemVars, barVars, appVars>>
    \/ useCounter_handleReset /\ UNCHANGED <<gifVars, fetcherVars, itemVars, barVars, appVars>>
    \/ useCounter_Render /\ UNCHANGED <<gifVars, fetcherVars, itemVars, barVars, appVars>>

SpecCounter == InitCounter /\ [][NextCounter]_vars

\* GifsApp mounted: useGif as constructed, the input empty, the effect of
\* SearchBar run once
InitSearchBar ==
    /\ useGifIdle
    /\ barQuery = <<>>
    /\ timers = {<<>>}
    /\ renderPending = FALSE
    /\ issued = 0
    /\ FetcherIdle
    /\ ItemCounterIdle
    /\ useCounterIdle

Typing ==
    \E text \in InputTexts :
        SearchBar_onChange(text) /\ UNCHANGED <<fetcherVars, itemVars, counterVars, appVars>>

Timeout ==
    \E text \in InputTexts :
        SearchBar_timeout(text) /\ UNCHANGED <<fetcherVars, itemVars, counterVars, appVars>>

Resolved ==
    \E term \in PendingTerms, found \in Results :
        GifsApp_handleSearchResolved(term, found)
        /\ UNCHANGED <<fetcherVars, itemVars, counterVars, appVars>>

Rejected ==
    \E term \in PendingTerms :
        GifsApp_handleSearchRejected(term)
        /\ UNCHANGED <<fetcherVars, itemVars, counterVars, appVars>>

Rendering == GifsApp_render /\ UNCHANGED <<fetcherVars, itemVars, counterVars, appVars>>

NextSearchBar ==
    \/ Typing
    \/ Timeout
    \/ Resolved
    \/ Rejected
    \/ Rendering

\* A timeout that is set fires, a render that is due takes place and a
\* request gets its answer or fails
SpecSearchBar ==
    /\ InitSearchBar
    /\ [][NextSearchBar]_vars
    /\ WF_vars(Timeout)
    /\ WF_vars(Rendering)
    /\ WF_vars(Resolved \/ Rejected)

SpecSession == InitSession /\ [][Next]_vars

----------------------------------------------------------------------------
(* GifsApp unmounted while requests are awaited                            *)

\* An unmount that leaves the timeout of the effect set
GifsApp_unmountNoCleanup ==
    /\ mounted
    /\ mounted' = FALSE
    /\ renderPending' = FALSE
    /\ UNCHANGED <<barQuery, timers, issued, gifVars>>

\* React unmounts GifsApp and its SearchBar: the cleanup of the effect
\* clears the timeout the effect had set; nothing renders any more
GifsApp_unmount ==
    /\ mounted
    /\ mounted' = FALSE
    /\ timers' = timers \ {barQuery}
    /\ renderPending' = FALSE
    /\ UNCHANGED <<barQuery, issued, gifVars>>

\* handleSearch after its await, the component unmounted since: React drops
\* the setGifs of an unmounted component, and the assignment
\* gifsCache.current[query] = gifs is made on the object the handler holds
handleSearchResolvedUnmounted(term, found) ==
    /\ ~mounted
    /\ Fetch("handleSearch", term) \in BagToSet(pending)
    /\ pending' = Settle(Fetch("handleSearch", term))
    /\ gifsCache' = CacheSet(gifsCache, term, found)
    /\ cachePrototype' = SetPrototype(term, found)
    /\ succeeded' = succeeded \cup {term}
    /\ last' = Step("handleSearch", term, "resolved", found)
    /\ UNCHANGED <<gifs, previousTerms, renderedTerms, accepted>>

\* handleTermClicked after its await, the component unmounted since: React
\* drops the setGifs, and the handler does nothing else
handleTermClickedResolvedUnmounted(term, found) ==
    /\ ~mounted
    /\ Fetch("handleTermClicked", term) \in BagToSet(pending)
    /\ pending' = Settle(Fetch("handleTermClicked", term))
    /\ last' = Step("handleTermClicked", term, "resolved", found)
    /\ UNCHANGED <<gifs, previousTerms, gifsCache, cachePrototype, renderedTerms, accepted, succeeded>>

Unmounting == GifsApp_unmount /\ UNCHANGED <<fetcherVars, itemVars, counterVars>>

ResolvedUnmounted ==
    \E term \in PendingTerms, found \in Results :
        handleSearchResolvedUnmounted(term, found)
        /\ UNCHANGED <<fetcherVars, itemVars, counterVars, barVars, appVars>>

ClickResolvedUnmounted ==
    \E term \in PendingTerms, found \in Results :
        handleTermClickedResolvedUnmounted(term, found)
        /\ UNCHANGED <<fetcherVars, itemVars, counterVars, barVars, appVars>>

\* The user types and leaves the page at any moment; the requests that are
\* awaited get their answer after the unmount
NextUnmount ==
    \/ mounted /\ Typing
    \/ Timeout
    \/ mounted /\ Resolved
    \/ Rejected
    \/ mounted /\ Rendering
    \/ Unmounting
    \/ ResolvedUnmounted

SpecUnmount == InitSearchBar /\ [][NextUnmount]_vars

\* The handlers of useGif called as in Next for as long as the component is
\* mounted, the component unmounted at any moment
NextDiscard ==
    \/ \E query \in RawQueries :
          mounted /\ handleSearch(query)
          /\ UNCHANGED <<fetcherVars, itemVars, counterVars, barVars, appVars>>
    \/ \E term \in PendingTerms, found \in Results :
          mounted /\ handleSearchResolved(term, found)
          /\ UNCHANGED <<fetcherVars, itemVars, counterVars, barVars, appVars>>
    \/ \E term \in PendingTerms :
          handleSearchRejected(term)
          /\ UNCHANGED <<fetcherVars, itemVars, counterVars, barVars, appVars>>
    \/ \E term \in Range(renderedTerms) :
          mounted /\ handleTermClicked(term)
          /\ UNCHANGED <<fetcherVars, itemVars, counterVars, barVars, appVars>>
    \/ \E term \in PendingTerms, found \in Results :
          mounted /\ handleTermClickedResolved(term, found)
          /\ UNCHANGED <<fetcherVars, itemVars, counterVars, barVars, appVars>>
    \/ \E term \in PendingTerms :
          handleTermClickedRejected(term)
          /\ UNCHANGED <<fetcherVars, itemVars, counterVars, barVars, appVars>>
    \/ mounted /\ Render /\ UNCHANGED <<fetcherVars, itemVars, counterVars, barVars, appVars>>
    \/ Unmounting
    \/ ResolvedUnmounted
    \/ ClickResolvedUnmounted

SpecDiscard == Init /\ [][NextDiscard]_vars

----------------------------------------------------------------------------
(* Vocabulary of the properties *)

Min(a, b) == IF a < b THEN a ELSE b

NoDuplicates(terms) ==
    \A i, j \in DOMAIN terms : i /= j => terms[i] /= terms[j]

\* An empty or whitespace-only string
IsBlank(query) == \A i \in DOMAIN query : query[i] \in WhiteSpace

\* The n newest entries of a log kept oldest first, newest first
NewestFirst(log, n) ==
    [i \in 1..Min(Len(log), n) |-> log[Len(log) + 1 - i]]

\* The terms the properties range over
Terms == ({Normalize(query) : query \in RawQueries} \ {<<>>})
         \cup {SessionTerm(i) : i \in 1..SessionLen}

SearchStep(outcome) == last.kind = "handleSearch" /\ last.outcome = outcome

ClickStep(outcome) == last.kind = "handleTermClicked" /\ last.outcome = outcome

----------------------------------------------------------------------------
(* C1: in every reachable state, whatever the interleaving of handleSearch *)
(* calls, handleTermClicked calls and fetch completions, previousTerms     *)
(* holds no term twice and at most 8 terms.                                *)

C1_HistoryDistinctAndBounded ==
    /\ NoDuplicates(previousTerms)
    /\ Len(previousTerms) <= 8

\* A ninth term has just been put in front of a full history, pushing the
\* oldest term out, while two fetches are in flight
C1_Witness ==
    /\ SearchStep("awaiting")
    /\ Len(previousTerms) = 8
    /\ previousTerms[1] = last.term
    /\ SessionTerm(1) \notin Range(previousTerms)
    /\ InFlight = 2

----------------------------------------------------------------------------
(* C2: for every raw query whose normalized form t is non-empty and not in *)
(* the history, handleSearch puts t at previousTerms[0] and makes the      *)
(* length min(previous length + 1, 8), from the moment the call is         *)
(* accepted.                                                               *)

C2_NewTermIsPrepended ==
    [][ \A query \in RawQueries :
          LET t == Normalize(query)
          IN  ( /\ ~IsBlank(query)
                /\ t \notin Range(previousTerms)
                /\ handleSearch(query) )
              => /\ Len(previousTerms') = Min(Len(previousTerms) + 1, 8)
                 /\ previousTerms'[1] = t ]_vars

----------------------------------------------------------------------------
(* C3: for every term already in the history, handleSearch with any        *)
(* casing or whitespace variant of it leaves previousTerms and the cache   *)
(* unchanged and issues no fetch, whether the term's own fetch is in       *)
(* flight, resolved or rejected.                                           *)

C3_KnownTermIsNoOp ==
    [][ \A query \in RawQueries :
          ( /\ Normalize(query) \in Range(previousTerms)
            /\ handleSearch(query) )
          => /\ previousTerms' = previousTerms
             /\ gifsCache' = gifsCache
             /\ pending' = pending ]_vars

----------------------------------------------------------------------------
(* C4: handleSearch with an empty or whitespace-only string changes        *)
(* nothing in any state: history, cache and displayed gifs stay as they    *)
(* are, no fetch is issued and the call does not fail.                     *)

C4_BlankQueryIsNoOp ==
    [][ \A query \in RawQueries :
          (IsBlank(query) /\ handleSearch(query))
          => /\ UNCHANGED <<previousTerms, gifsCache, cachePrototype, gifs, pending>>
             /\ last'.kind = "handleSearch"
             /\ last'.outcome = "empty" ]_vars

\* A blank query was submitted while a history, a cache entry, displayed
\* gifs and a fetch in flight were there to be disturbed
C4_Witness ==
    /\ SearchStep("empty")
    /\ previousTerms /= <<>>
    /\ DOMAIN gifsCache /= {}
    /\ gifs /= Array(<<>>)
    /\ InFlight > 0

----------------------------------------------------------------------------
(* C5: after k accepted handleSearch calls with pairwise distinct terms,   *)
(* from the empty hook, previousTerms is exactly the min(k, 8) terms       *)
(* accepted last, newest first.                                            *)

C5_HistoryIsNewestAccepted ==
    accepted.distinct => previousTerms = NewestFirst(accepted.terms, 8)

----------------------------------------------------------------------------
(* C6: handleTermClicked(t) for a term t that is a key of the cache never  *)
(* issues a fetch, in any state and whatever else is pending.              *)

C6_CachedClickIssuesNoFetch ==
    [][ \A term \in DOMAIN gifsCache :
          handleTermClicked(term) => pending' = pending ]_vars

\* A term whose cached result is the empty array was clicked while another
\* fetch was in flight
C6_Witness ==
    /\ ClickStep("cached")
    /\ last.term \in DOMAIN gifsCache
    /\ gifsCache[last.term] = GifsNone
    /\ InFlight > 0

----------------------------------------------------------------------------
(* C7: once handleSearch(t) has resumed with the result R of its fetch,    *)
(* gifsCache[t] = R and gifs = R; a handleTermClicked(t) then sets gifs to *)
(* that same cached R, so right after the search gifs does not change,     *)
(* and no fetch is issued.                                                 *)

C7_SearchThenClickRoundTrip ==
    /\ [](SearchStep("resolved") =>
            /\ last.term \in DOMAIN gifsCache
            /\ gifsCache[last.term] = last.result
            /\ gifs = last.result)
    /\ [][ \A term \in DOMAIN gifsCache :
             handleTermClicked(term) =>
                /\ gifs' = gifsCache[term]
                /\ gifsCache' = gifsCache
                /\ pending' = pending
                /\ (SearchStep("resolved") /\ last.term = term => gifs' = gifs) ]_vars

\* A click on a term served the two gifs its search had cached
C7_Witness ==
    /\ ClickStep("cached")
    /\ last.term \in DOMAIN gifsCache
    /\ gifsCache[last.term] = GifsTwo
    /\ gifs = GifsTwo
    /\ InFlight = 0

----------------------------------------------------------------------------
(* C8: handleTermClicked(t) for a term t that is in the history and is not *)
(* a key of the cache issues exactly one fetch for t, and when that fetch  *)
(* resolves gifs is set to what it returned.                               *)

C8_UncachedClickFetchesOnce ==
    /\ [](ClickStep("resolved") => gifs = last.result)
    /\ [][ \A term \in Range(previousTerms) \ DOMAIN gifsCache :
             handleTermClicked(term) =>
                pending' = Issue(Fetch("handleTermClicked", term)) ]_vars

----------------------------------------------------------------------------
(* C9: when the fetch of an accepted handleSearch(t) fails, gifs keeps the *)
(* value it had, the history is not rolled back (t, if it was there, stays *)
(* there) and the failure reaches the caller as a rejected promise.        *)

C9_FailedSearchKeepsState ==
    [][ \A term \in Terms :
          handleSearchRejected(term) =>
             /\ gifs' = gifs
             /\ previousTerms' = previousTerms
             /\ gifsCache' = gifsCache
             /\ last'.kind = "handleSearch"
             /\ last'.outcome = "rejected" ]_vars

\* The search of a term failed while the gifs of another search were on
\* display: the term is in the history and has no cache entry
C9_Witness ==
    /\ SearchStep("rejected")
    /\ last.term \in Range(previousTerms)
    /\ last.term \notin DOMAIN gifsCache
    /\ gifs = GifsTwo

----------------------------------------------------------------------------
(* C10: when the fetch issued by handleTermClicked(t) on a cache miss      *)
(* fails, the failure reaches the caller as a rejected promise and gifs,   *)
(* previousTerms and the cache are left as they were.                      *)

C10_FailedClickKeepsState ==
    [][ \A term \in Terms :
          handleTermClickedRejected(term) =>
             /\ gifs' = gifs
             /\ previousTerms' = previousTerms
             /\ gifsCache' = gifsCache
             /\ last'.kind = "handleTermClicked"
             /\ last'.outcome = "rejected" ]_vars

\* The fetch of a clicked, uncached history term failed while the gifs of
\* another search were on display
C10_Witness ==
    /\ ClickStep("rejected")
    /\ last.term \in Range(previousTerms)
    /\ last.term \notin DOMAIN gifsCache
    /\ gifs = GifsTwo

----------------------------------------------------------------------------
(* C11: in every reachable state a term is an own property of              *)
(* gifsCache.current exactly when a fetch of handleSearch for that term    *)
(* has resolved; a rejected fetch and handleTermClicked never make a       *)
(* property, and a property once made is never removed.                    *)

C11_CacheKeysAreSucceededSearches ==
    /\ [](DOMAIN gifsCache = succeeded)
    /\ [][ /\ DOMAIN gifsCache \subseteq DOMAIN gifsCache'
           /\ (last'.outcome = "rejected" \/ last'.kind = "handleTermClicked")
              => DOMAIN gifsCache' = DOMAIN gifsCache ]_vars

\* The fetch of handleSearch("__proto__") has resolved and gifsCache.current
\* has no property of that name: the array became its prototype
C11_Witness ==
    /\ SearchStep("resolved")
    /\ last.term = Proto
    /\ Proto \notin DOMAIN gifsCache
    /\ cachePrototype = last.result

----------------------------------------------------------------------------
(* C12: gifs is empty as long as no fetch has resolved and no click has    *)
(* hit the cache; afterwards it is, whole, what the last such event gave:  *)
(* the array a fetch resolved with, or the array cached for the term       *)
(* clicked. No other step changes it.                                      *)

C12_GifsIsLastResult ==
    /\ gifs = Array(<<>>)
    /\ [][ IF last'.outcome = "resolved"
           THEN gifs' = last'.result
           ELSE IF last'.kind = "handleTermClicked" /\ last'.outcome = "cached"
           THEN /\ last'.term \in DOMAIN gifsCache
                /\ gifs' = gifsCache[last'.term]
           ELSE gifs' = gifs ]_vars

\* A click has taken the cache-hit branch for a term the cache has no
\* property for, and gifs is no array
C12_Witness ==
    /\ ClickStep("cached")
    /\ last.term \notin DOMAIN gifsCache
    /\ gifs.type /= "array"

----------------------------------------------------------------------------
(* C13: handleSearch calls that overlap are not serialized. When           *)
(* handleSearch takes A, then takes B while the fetch of A is pending, and *)
(* the fetch of A resolves after the fetch of B has settled, gifs becomes  *)
(* what the fetch of A returned although previousTerms[0] is B.            *)

C13_LateFetchWins ==
    [][ \A A, B \in Terms, found \in Results :
          LET n == Len(accepted.terms)
          IN  ( /\ A /= B
                /\ accepted.distinct
                /\ n >= 2
                /\ accepted.terms[n - 1] = A
                /\ accepted.terms[n] = B
                /\ Fetch("handleSearch", B) \notin BagToSet(pending)
                /\ handleSearchResolved(A, found) )
              => /\ gifs' = found
                 /\ previousTerms'[1] = B ]_vars

\* The fetch of the older of the two searches has just resolved, after the
\* newer one had resolved with something else: gifs shows the older search,
\* the history is headed by the newer
C13_Witness ==
    LET n == Len(accepted.terms)
    IN  /\ SearchStep("resolved")
        /\ accepted.distinct
        /\ n >= 2
        /\ accepted.terms[n - 1] = last.term
        /\ accepted.terms[n] /= last.term
        /\ accepted.terms[n] \in DOMAIN gifsCache
        /\ gifsCache[accepted.terms[n]] /= last.result
        /\ pending = EmptyBag
        /\ previousTerms[1] = accepted.terms[n]
        /\ gifs = last.result

----------------------------------------------------------------------------
(* C14: every term of previousTerms, every property name of                *)
(* gifsCache.current and every term handleSearch passes to getGifsByQuery  *)
(* is a non-empty string without white space at either end and without an  *)
(* upper-case letter, and normalizing a normalized query gives it back.    *)

IsNormalized(t) ==
    /\ t /= <<>>
    /\ t[1] \notin WhiteSpace
    /\ t[Len(t)] \notin WhiteSpace
    /\ \A i \in DOMAIN t : t[i] \notin Range(UpperCase)

C14_TermsAreNormalized ==
    /\ \A t \in Range(previousTerms) : IsNormalized(t)
    /\ \A t \in DOMAIN gifsCache : IsNormalized(t)
    /\ \A f \in BagToSet(pending) : f.op = "handleSearch" => IsNormalized(f.term)
    /\ \A query \in RawQueries :
          /\ Normalize(Normalize(query)) = Normalize(query)
          /\ Normalize(query) /= <<>> => IsNormalized(Normalize(query))

\* "cat", typed in one of its spellings, is in the history and in the cache
\* while the fetch for "constructor" is pending
C14_Witness ==
    /\ Cat \in Range(previousTerms)
    /\ Cat \in DOMAIN gifsCache
    /\ Fetch("handleSearch", Constructor) \in BagToSet(pending)

----------------------------------------------------------------------------
(* C15: in every reachable state every term of previousTerms is a property *)
(* of gifsCache.current, cached by handleSearch, so that the fetching path *)
(* of handleTermClicked has nothing to cache.                              *)

C15_HistoryTermsAreCached ==
    \A t \in Range(previousTerms) : t \in DOMAIN gifsCache

\* The fetch of a search has failed: its term is in the history, no fetch
\* for it is under way and the cache has nothing for it
C15_Witness ==
    /\ SearchStep("rejected")
    /\ last.term \in Range(previousTerms)
    /\ last.term \notin DOMAIN gifsCache
    /\ last.term \notin PendingTerms

----------------------------------------------------------------------------
(* C16: getGifsByQuery returns as many gifs as the response holds, in the  *)
(* same order, each width and height converted to an integer, a text that  *)
(* is no number giving 0 and neither an error nor NaN.                     *)

IsInteger(n) == ~n.nan /\ n.frac = <<>>

\* Texts that spell a number: their characters are digits and dots
IsNumeric(text) ==
    text /= <<>> /\ \A i \in DOMAIN text : text[i] \in Range(Digits) \cup {"."}

C16_DimensionsAreIntegers ==
    returned.state = "resolved" =>
        /\ Len(returned.value) = Len(data)
        /\ \A i \in DOMAIN data :
              LET original == data[i].images.original
                  gif == returned.value[i]
              IN  /\ gif.id = data[i].id
                  /\ IsInteger(gif.width)
                  /\ IsInteger(gif.height)
                  /\ ~IsNumeric(original.width) => gif.width = Num(0, <<>>)
                  /\ ~IsNumeric(original.height) => gif.height = Num(0, <<>>)

\* A response of two gifs, the first with the width "abc", has been mapped:
\* two gifs in the same order, the first with the width NaN
C16_Witness ==
    /\ returned.state = "resolved"
    /\ Len(data) = 2
    /\ data[1].id = "g2"
    /\ data[2].id = "g1"
    /\ data[1].images.original.width = <<"a", "b", "c">>
    /\ returned.value[1].id = "g2"
    /\ returned.value[1].width = NaN

----------------------------------------------------------------------------
(* C17: whatever quantity the ItemCounter is given, or when it is given    *)
(* none, count is never below 1; a click on -1 leaves a count of 1 as it   *)
(* is and takes exactly 1 from a count above 1; a click on +1 adds         *)
(* exactly 1.                                                              *)

C17_CountStaysAtLeastOne ==
    /\ [](count >= 1)
    /\ [][ /\ (ItemCounter_handleSubstract /\ count = 1) => count' = 1
           /\ (ItemCounter_handleSubstract /\ count > 1) => count' = count - 1
           /\ ItemCounter_handleAdd => count' = count + 1 ]_vars

\* An ItemCounter given the quantity 0 shows a negative count
C17_Witness ==
    /\ quantity = Given(0)
    /\ count < 0

----------------------------------------------------------------------------
(* C18: before any handler is called counter is initialValue, 10 when the  *)
(* hook is given none, and whatever was called before, handleReset sets    *)
(* counter to initialValue.                                                *)

C18_ResetRestoresInitialValue ==
    /\ counter = (IF initialValue.given THEN initialValue.value ELSE 10)
    /\ [][ useCounter_handleReset
           => counter' = (IF initialValue.given THEN initialValue.value ELSE 10) ]_vars

\* useCounter(20) after a reset that changed counter
C18_Witness ==
    /\ initialValue = Given(20)
    /\ counter = 20
    /\ renderedCounter /= 20

----------------------------------------------------------------------------
(* C19: every handleAdd adds exactly 1 to counter and every                *)
(* handleSubstract takes exactly 1 from it, whether or not the component   *)
(* rendered again since the call before.                                   *)

C19_EachCallCountsOnce ==
    [][ /\ useCounter_handleAdd => counter' = counter + 1
        /\ useCounter_handleSubstract => counter' = counter - 1 ]_vars

\* handleAdd was called twice from the same render: counter is one above
\* the rendered value, not two
C19_Witness ==
    /\ initialValue = NotGiven
    /\ renderedCounter = 10
    /\ counter = 11

----------------------------------------------------------------------------
(* C20: the debounce of SearchBar. A timeout only ever delivers the text   *)
(* the input holds when it fires, never a text typed before it, and the    *)
(* fetch it causes, if any, is for that text normalized; while the input   *)
(* keeps a text the timeouts cause at most one fetch, and when the text    *)
(* normalizes to a non-empty term that is not in the history they do cause *)
(* one, unless the user goes back to an empty or a searched text.          *)

C20_DebounceDeliversFinalText ==
    /\ [](issued <= 1)
    /\ [][ \A text \in InputTexts :
              SearchBar_timeout(text)
              => /\ text = barQuery
                 /\ \/ pending' = pending
                    \/ pending' = pending (+) SetToBag({Fetch("handleSearch", Normalize(barQuery))}) ]_vars
    /\ ( /\ Normalize(barQuery) /= <<>>
         /\ Normalize(barQuery) \notin Range(previousTerms) )
       ~> \/ issued = 1
          \/ Normalize(barQuery) = <<>>
          \/ Normalize(barQuery) \in Range(previousTerms)

\* "c" and "ca" were typed and never searched; the input holds "cat", one
\* fetch was made for it, a later timeout found it in the history and no
\* timeout is left
C20_Witness ==
    /\ barQuery = Cat
    /\ issued = 1
    /\ accepted = Accepted(<<Cat>>, TRUE)
    /\ previousTerms = <<Cat>>
    /\ SearchStep("duplicate")
    /\ timers = {}
    /\ ~renderPending

----------------------------------------------------------------------------
(* C21: handleTermClicked never changes previousTerms and never writes     *)
(* gifsCache.current, whether it hits the cache, fetches and gets an       *)
(* answer, or fetches and fails; of the state of the hook it can change    *)
(* gifs only.                                                              *)

C21_ClickChangesGifsOnly ==
    [][ \A term \in Terms :
          ( \/ handleTermClicked(term)
            \/ \E found \in Results : handleTermClickedResolved(term, found)
            \/ handleTermClickedRejected(term) )
          => /\ previousTerms' = previousTerms
             /\ gifsCache' = gifsCache
             /\ cachePrototype' = cachePrototype ]_vars

\* The fetch of a click has resolved and is on display, and the term
\* clicked still has no cache entry
C21_Witness ==
    /\ ClickStep("resolved")
    /\ gifs = last.result
    /\ gifs = GifsTwo
    /\ last.term \in Range(previousTerms)
    /\ last.term \notin DOMAIN gifsCache

----------------------------------------------------------------------------
(* C22: handleSearch never issues a fetch for a term that has a cache      *)
(* entry and never writes the entry of such a term again: each entry of    *)
(* gifsCache.current is written at most once.                              *)

C22_CacheEntryWrittenOnce ==
    [][ /\ \A query \in RawQueries :
              (Normalize(query) \in DOMAIN gifsCache /\ handleSearch(query))
              => pending' = pending
        /\ \A term \in Terms, found \in Results :
              handleSearchResolved(term, found) => term \notin DOMAIN gifsCache ]_vars

\* A second fetch of handleSearch for a term has resolved and written the
\* entry the first one had made, with another result
C22_Witness ==
    /\ SearchStep("resolved")
    /\ ~accepted.distinct
    /\ gifsCache[last.term] = GifsTwo
    /\ gifs = GifsTwo
    /\ Len(previousTerms) = 1

----------------------------------------------------------------------------
(* C23: a term whose search failed is in previousTerms without a cache     *)
(* entry only until a later fetch for it succeeds: when a fetch for such a *)
(* term resolves, made by handleSearch or by handleTermClicked, the term   *)
(* has a cache entry.                                                      *)

C23_LaterSuccessCachesTerm ==
    [][ \A term \in Range(previousTerms) \ DOMAIN gifsCache, found \in Results :
          ( /\ Fetch("handleSearch", term) \notin BagToSet(pending)
            /\ \/ handleSearchResolved(term, found)
               \/ handleTermClickedResolved(term, found) )
          => term \in DOMAIN gifsCache' ]_vars

\* The search of the only term of the history had failed; a click on the
\* term has fetched its gifs and shows them, nothing is pending, and the
\* term is still without a cache entry
C23_Witness ==
    /\ ClickStep("resolved")
    /\ previousTerms = <<Cat>>
    /\ accepted = Accepted(<<Cat>>, TRUE)
    /\ gifs = GifsOne
    /\ gifsCache = <<>>
    /\ pending = EmptyBag

----------------------------------------------------------------------------
(* C24: once GifsApp, the component using useGif, is unmounted, the        *)
(* completion of a fetch that was pending is a no-op: no step taken after  *)
(* the unmount changes gifs or the cache of the unmounted instance.        *)

C24_CompletionAfterUnmountIsNoOp ==
    [][ ~mounted => /\ gifs' = gifs
                    /\ gifsCache' = gifsCache
                    /\ cachePrototype' = cachePrototype ]_vars

\* The component was unmounted while its first search was awaited; the fetch
\* has resolved since: nothing is shown, and the cache of the unmounted
\* instance holds what was fetched
C24_Witness ==
    /\ ~mounted
    /\ SearchStep("resolved")
    /\ last.result = GifsTwo
    /\ gifs = Array(<<>>)
    /\ gifsCache = (last.term :> GifsTwo)
    /\ pending = EmptyBag

----------------------------------------------------------------------------
(* C25: a call of handleSearch or handleTermClicked issues at most one     *)
(* fetch and is suspended once, at that fetch: the step that ends the      *)
(* await takes the fetch out of those awaited and issues none. After a     *)
(* failed fetch nothing is fetched again by the hook itself, and the hook  *)
(* takes any new search and any click.                                     *)

----------------------------------------------------------------------------
(* C26: SearchBar has at most one timeout set at any time, the one of the  *)
(* text in the input: each run of the effect clears the timeout of the run *)
(* before, and the unmount clears the one that is set. onQuery is          *)
(* therefore never called by a timeout after the unmount, nor by the       *)
(* timeout of a text that has been replaced.                               *)

C26_OneTimerAtMost ==
    /\ [](/\ Cardinality(timers) <= 1
          /\ timers \subseteq {barQuery}
          /\ ~mounted => timers = {})
    /\ [][ \A text \in InputTexts :
              SearchBar_timeout(text) => mounted /\ text = barQuery ]_vars

\* "cat" was typed and the component unmounted before the 700 ms were over:
\* no timeout is left, and no search was ever made
C26_Witness ==
    /\ ~mounted
    /\ barQuery = Cat
    /\ timers = {}
    /\ previousTerms = <<>>
    /\ last = NoStep

----------------------------------------------------------------------------
(* C27: the app comes to rest. A timeout that delivers an empty text or a  *)
(* term of the rendered history changes no state and issues no fetch, and  *)
(* no fetch is issued while the input is blank (so none on mounting        *)
(* without typing). Once the user types no more, after finitely many steps *)
(* no timeout is set, no fetch is awaited and no render is due, for good.  *)

Quiescent == timers = {} /\ pending = EmptyBag /\ ~renderPending

C27_Quiescence ==
    /\ [][ /\ \A text \in InputTexts :
                 ( /\ SearchBar_timeout(text)
                   /\ \/ Len(Normalize(text)) = 0
                      \/ includes(renderedTerms, Normalize(text)) )
                 => UNCHANGED <<gifs, previousTerms, gifsCache, pending, renderPending>>
           /\ InFlight' > InFlight => ~IsBlank(barQuery) ]_vars
    /\ (<>[][~Typing]_vars) => <>[]Quiescent

\* At rest after a search: "cat" is in the input, its gifs are cached, the
\* timeout set by the last render has delivered "cat" again, found it in
\* the history and done nothing
C27_Witness ==
    /\ Quiescent
    /\ barQuery = Cat
    /\ Cat \in DOMAIN gifsCache
    /\ last = Step("handleSearch", Cat, "duplicate", Undefined)
    /\ issued = 1

----------------------------------------------------------------------------
(* C28: a term leaves previousTerms only as its last, oldest entry, when a *)
(* new term is put in front of a history of 8: every step either leaves    *)
(* the history as it is or puts one term in front of it, dropping the last *)
(* entry when there were 8, so that no entry is removed otherwise and the  *)
(* order of those that stay never changes.                                 *)

C28_OnlyOldestLeaves ==
    [][ \/ previousTerms' = previousTerms
        \/ /\ Len(previousTerms') = Min(Len(previousTerms) + 1, MaxHistory)
           /\ \A i \in 2..Len(previousTerms') :
                 previousTerms'[i] = previousTerms[i - 1] ]_vars

\* Two searches were taken one after the other and the history, far from
\* full, holds the second only: the first has left it
C28_Witness ==
    /\ SearchStep("awaiting")
    /\ accepted.distinct
    /\ Len(accepted.terms) = 2
    /\ previousTerms = <<accepted.terms[2]>>
    /\ InFlight = 2

----------------------------------------------------------------------------
(* C29: from the moment a term enters previousTerms to the moment it       *)
(* leaves, handleSearch issues exactly one fetch for it: the call that     *)
(* puts the term in the history issues one, and no call made while the     *)
(* term is in the history issues another, in whatever casing the term is   *)
(* submitted and whether that fetch is awaited, has resolved or has failed.*)

C29_OneFetchPerHistoryTerm ==
    [][ \A query \in RawQueries :
          handleSearch(query) =>
             LET term == Normalize(query)
             IN  /\ term \in Range(previousTerms) => pending' = pending
                 /\ (term \notin Range(previousTerms) /\ term \in Range(previousTerms'))
                       => pending' = Issue(Fetch("handleSearch", term)) ]_vars

\* "cat" is the only term of the history and two fetches of handleSearch
\* for it are awaited at once
C29_Witness ==
    /\ previousTerms = <<Cat>>
    /\ CopiesIn(Fetch("handleSearch", Cat), pending) = 2
    /\ SearchStep("awaiting")
    /\ last.term = Cat

----------------------------------------------------------------------------
(* C30: with every awaited fetch completing sooner or later, once a fetch  *)
(* of handleSearch for a term has resolved the term is, from some moment   *)
(* on and for good, an own property of gifsCache.current, and every        *)
(* handleTermClicked for the term made after the fetch has resolved is     *)
(* served from the cache without a fetch.                                  *)

C30_SucceededSearchIsCachedForGood ==
    /\ \A term \in {Normalize(query) : query \in ProtoQueries} :
          (term \in succeeded) ~> [](term \in DOMAIN gifsCache)
    /\ [][ \A term \in succeeded :
              handleTermClicked(term) => /\ pending' = pending
                                         /\ last'.outcome = "cached" ]_vars

\* The fetch of handleSearch("__proto__") resolved with two gifs, which a
\* later search has replaced on the screen; nothing is awaited any more and
\* the cache has no property "__proto__"
C30_Witness ==
    /\ Proto \in succeeded
    /\ Proto \notin DOMAIN gifsCache
    /\ cachePrototype = GifsTwo
    /\ Cat \in DOMAIN gifsCache
    /\ gifs = gifsCache[Cat]
    /\ pending = EmptyBag

====
